---- MODULE Spec2Model ----
(***************************************************************************)
(* MantraLekhan (src/frontend/src/App.jsx): a grid of text cells on up to  *)
(* five pages, mirrored to one localStorage item and exported as a PDF.    *)
(*                                                                         *)
(* JavaScript arrays are objects: the React state `pages` is an array of   *)
(* references to page arrays.  The model keeps the page arrays in `heap`   *)
(* and the references in `pages`, so that an in-place write through one    *)
(* reference is seen through every other reference to the same array.      *)
(* Indices in action parameters are the 0-based indices of the code; a     *)
(* TLA+ sequence is 1-based, hence the "+ 1" where one is read.            *)
(***************************************************************************)
EXTENDS Integers, Sequences, FiniteSets, TLC

cellsPerPage == 100
\* Array.from({ length: 5 }): the cells of a row of a print page
columns == 5
maxPages == 5
\* Array.from({ length: 20 }): the rows of a print page
rowsPerPage == 20

\* At most this many cells hold a text the user typed.
MaxTyped == 1
\* At most this many mutations of a session are made while an export is in
\* flight.
MaxOverlap == 1

\* The texts the user types ("" clears a cell), the texts a cell may hold, and
\* the cells typed into or keyed at: the first and the last of a page.
Typable == {"", "OM"}
CellTexts == Typable \cup {"A"}
EditCells == {0, cellsPerPage - 1}

VARIABLES
  slot,       \* the localStorage item 'mantraPages'
  mounted,    \* whether the component has been mounted in this session
  pages,      \* React state: the sequence of references to page arrays
  heap,       \* the page arrays: heap[ref] is a sequence of cell texts
  exportPc,   \* downloadPDF: "idle", "pending" (render awaited), "rendered"
  exportArg,  \* the `pages` array handed to MantraPDF by downloadPDF
  exportDoc,  \* what exportArg held when downloadPDF was called
  exportBlob, \* the rendered document, once the renderer has run
  overlap,    \* mutations of this session made while an export was in flight
  prevDoc,    \* the document the previous session ended with
  event       \* the latest handler call and what it did to the outside

vars == <<slot, mounted, pages, heap, exportPc, exportArg, exportDoc,
          exportBlob, overlap, prevDoc, event>>

(***************************************************************************)
(* JSON texts.  A text is modelled by what it denotes: an array is a       *)
(* tagged sequence of element texts, a string cell is its quoted literal,  *)
(* and the other values are bare tags.  A localStorage item is absent, the *)
(* empty string, a string that is no JSON, or a JSON text.                 *)
(***************************************************************************)
JNull == [t |-> "null"]
JNum == [t |-> "num"]
JObj == [t |-> "obj"]
JArr(a) == [t |-> "arr", a |-> a]
Quote(s) == "\"" \o s \o "\""
Quoted == [s \in CellTexts |-> Quote(s)]
Unquote(q) == CHOOSE s \in CellTexts : Quoted[s] = q

NoItem == [t |-> "none"]
EmptyText == [t |-> "empty"]
BadText == [t |-> "bad"]
JsonText(j) == [t |-> "text", json |-> j]

\* Array(cellsPerPage).fill('')
BlankPage == [k \in 1..cellsPerPage |-> ""]

\* JSON.stringify(pages), on the contents of the page arrays
stringify(doc) ==
  JsonText(JArr([i \in 1..Len(doc) |->
                   JArr([k \in 1..Len(doc[i]) |-> Quoted[doc[i][k]]])]))

\* What `pages` denotes: the cell texts behind each reference.
Deref(refs, hp) == [i \in 1..Len(refs) |-> hp[refs[i]]]
Contents == Deref(pages, heap)

\* initializePages without the test of each page's length.
initializePagesAnyLength(saved) ==
  LET threw == saved.t = "bad"
      parsed == IF saved.t \in {"none", "empty"} THEN JNull ELSE saved.json
      valid == /\ ~threw
               /\ parsed.t = "arr"
               /\ Len(parsed.a) > 0
               /\ \A i \in 1..Len(parsed.a) : parsed.a[i].t = "arr"
  IN IF valid
       THEN [i \in 1..Len(parsed.a) |->
               [k \in 1..Len(parsed.a[i].a) |-> Unquote(parsed.a[i].a[k])]]
       ELSE <<BlankPage>>

\* initializePages: the document restored from a localStorage item.
initializePages(saved) ==
  LET threw == saved.t = "bad"
      parsed == IF saved.t \in {"none", "empty"} THEN JNull ELSE saved.json
      valid == /\ ~threw
               /\ parsed.t = "arr"
               /\ Len(parsed.a) > 0
               /\ \A i \in 1..Len(parsed.a) :
                     /\ parsed.a[i].t = "arr"
                     /\ Len(parsed.a[i].a) = cellsPerPage
  IN IF valid
       THEN [i \in 1..Len(parsed.a) |->
               [k \in 1..cellsPerPage |-> Unquote(parsed.a[i].a[k])]]
       ELSE <<BlankPage>>

(***************************************************************************)
(* The heap.  A reference is an index into `heap`.  After every step the   *)
(* arrays no reference reaches are dropped and the rest renumbered in the  *)
(* order `pages`, then `exportArg`, reach them (a reference's number is    *)
(* not observable in JavaScript).                                          *)
(***************************************************************************)
RECURSIVE Distinct(_)
Distinct(s) ==
  IF s = <<>> THEN <<>>
  ELSE LET r == Distinct(SubSeq(s, 1, Len(s) - 1))
           x == s[Len(s)]
       IN IF \E i \in 1..Len(r) : r[i] = x THEN r ELSE Append(r, x)

IndexOf(s, x) == CHOOSE i \in 1..Len(s) : s[i] = x

\* The next state's pages, exportArg and heap, from the references held.
Store(newPages, newArg, newHeap) ==
  LET live == Distinct(newPages \o newArg)
  IN /\ pages' = [i \in 1..Len(newPages) |-> IndexOf(live, newPages[i])]
     /\ exportArg' = [i \in 1..Len(newArg) |-> IndexOf(live, newArg[i])]
     /\ heap' = [i \in 1..Len(live) |-> newHeap[live[i]]]

\* The item written from the `pages` of the render before.
persistStale(doc) == slot' = stringify(IF mounted THEN Contents ELSE doc)

\* useEffect(..., [pages]): the item is overwritten after a render with a new
\* `pages` array.
persist(doc) == slot' = stringify(doc)

\* The number of cells that hold a text the user typed.
Typed(doc) ==
  Cardinality({pc \in (1..Len(doc)) \X EditCells :
                 doc[pc[1]][pc[2] + 1] \in Typable \ {""}})

\* A mutation is allowed while an export is in flight up to MaxOverlap times.
MayMutate == exportPc = "idle" \/ overlap < MaxOverlap
Mutated == overlap' = IF exportPc = "idle" THEN overlap ELSE overlap + 1

NoFocus == <<>>
NoFile == <<>>
Ev(op, p, c, v, confirmed, alerted, focus, file) ==
  [op |-> op, p |-> p, c |-> c, v |-> v, confirmed |-> confirmed,
   alerted |-> alerted, focus |-> focus, file |-> file]

\* setPages(newPages) and the effect that follows the render.
setPages(newPages, newHeap) ==
  /\ Store(newPages, exportArg, newHeap)
  /\ persist(Deref(newPages, newHeap))
  /\ Mutated
  /\ UNCHANGED <<mounted, exportPc, exportDoc, exportBlob, prevDoc>>

\* A handler that returns before it calls setPages.
noRender ==
  UNCHANGED <<slot, mounted, pages, heap, exportPc, exportArg, exportDoc,
              exportBlob, overlap, prevDoc>>

(***************************************************************************)
(* The session: useState(initializePages) and the first run of the effect. *)
(***************************************************************************)
Mount ==
  /\ ~mounted
  /\ LET doc == initializePages(slot)
     IN /\ Store([i \in 1..Len(doc) |-> i], <<>>, doc)
        /\ persist(doc)
  /\ mounted' = TRUE
  /\ prevDoc' = <<>>
  /\ overlap' = 0
  /\ event' = Ev("mount", -1, -1, slot.t, FALSE, FALSE, NoFocus, NoFile)
  /\ UNCHANGED <<exportPc, exportDoc, exportBlob>>

\* The page is closed or reloaded: memory is lost, the item stays.
Reload ==
  /\ mounted
  /\ mounted' = FALSE
  /\ prevDoc' = Contents
  /\ pages' = <<>>
  /\ heap' = <<>>
  /\ exportPc' = "idle"
  /\ exportArg' = <<>>
  /\ exportDoc' = <<>>
  /\ exportBlob' = NoFile
  /\ overlap' = 0
  /\ event' = Ev("reload", -1, -1, "", FALSE, FALSE, NoFocus, NoFile)
  /\ UNCHANGED slot

(***************************************************************************)
(* The handlers.                                                           *)
(***************************************************************************)
\* The write with the page index dropped: always into the first page.
writeCellFirstPage(refs, hp, pageIndex, cellIndex, value) ==
  [hp EXCEPT ![refs[1]][cellIndex + 1] = value]

\* newPages[pageIndex][cellIndex] = value: a write into the page array that
\* newPages[pageIndex] refers to.
writeCell(refs, hp, pageIndex, cellIndex, value) ==
  [hp EXCEPT ![refs[pageIndex + 1]][cellIndex + 1] = value]

handleChange(pageIndex, cellIndex, value) ==
  /\ mounted
  /\ MayMutate
  /\ LET newPages == pages
         newHeap == writeCell(newPages, heap, pageIndex, cellIndex, value)
     IN /\ value = "" \/ Typed(Deref(newPages, newHeap)) <= MaxTyped
        /\ setPages(newPages, newHeap)
  /\ event' = Ev("change", pageIndex, cellIndex, value, FALSE, FALSE,
                 NoFocus, NoFile)

\* An input found one page past the last.
inputExistsPastEnd(p, c) ==
  /\ p \in 0..Len(pages)
  /\ c \in 0..(cellsPerPage - 1)

\* document.querySelector(`#cell-${p}-${c}`): the inputs rendered from `pages`
inputExists(p, c) ==
  /\ p \in 0..(Len(pages) - 1)
  /\ c \in 0..(Len(heap[pages[p + 1]]) - 1)

handleKeyDown(key, pageIndex, cellIndex) ==
  /\ mounted
  /\ LET nextIndex == (cellIndex + 1) % cellsPerPage
         nextPageIndex == pageIndex + ((cellIndex + 1) \div cellsPerPage)
         focused == IF key = "Enter" /\ inputExists(nextPageIndex, nextIndex)
                      THEN <<nextPageIndex, nextIndex>>
                      ELSE NoFocus
     IN event' = Ev("key", pageIndex, cellIndex, key, FALSE, FALSE,
                    focused, NoFile)
  /\ noRender

\* pages.length > maxPages
overCapacity(n) == n > maxPages

\* pages.length >= maxPages
atCapacity(n) == n >= maxPages

\* [...prevPages, newPage] with newPage a fresh array
appendPage(refs, hp) ==
  [pages |-> Append(refs, Len(hp) + 1), heap |-> Append(hp, BlankPage)]

addPage ==
  /\ mounted
  /\ IF atCapacity(Len(pages))
       THEN /\ event' = Ev("add", -1, -1, "", FALSE, TRUE, NoFocus, NoFile)
            /\ noRender
       ELSE /\ MayMutate
            /\ LET new == appendPage(pages, heap)
               IN setPages(new.pages, new.heap)
            /\ event' = Ev("add", -1, -1, "", FALSE, FALSE, NoFocus, NoFile)

\* The answer to the prompt ignored.
abortsNever(confirmed) == FALSE

\* if (!confirmDelete) return;  if (!confirmReset) return;
aborts(confirmed) == ~confirmed

\* newPages.splice(index - 1, 1)
spliceBefore(s, index) ==
  [i \in 1..(Len(s) - 1) |-> IF i < index THEN s[i] ELSE s[i + 1]]

\* newPages.splice(index, 1)
splice(s, index) ==
  [i \in 1..(Len(s) - 1) |-> IF i <= index THEN s[i] ELSE s[i + 1]]

\* [Array(cellsPerPage).fill('')] as the new state
onePage(hp) == [pages |-> <<Len(hp) + 1>>, heap |-> Append(hp, BlankPage)]

\* The state removePage sets once confirmed.
removed(refs, hp, index) ==
  LET newPages == splice(refs, index)
  IN IF Len(newPages) # 0 THEN [pages |-> newPages, heap |-> hp]
     ELSE onePage(hp)

removePage(index, confirmDelete) ==
  /\ mounted
  /\ IF aborts(confirmDelete)
       THEN noRender
       ELSE /\ MayMutate
            /\ LET new == removed(pages, heap, index)
               IN setPages(new.pages, new.heap)
  /\ event' = Ev("remove", index, -1, "", confirmDelete, FALSE, NoFocus,
                 NoFile)

resetAll(confirmReset) ==
  /\ mounted
  /\ IF aborts(confirmReset)
       THEN noRender
       ELSE /\ MayMutate
            /\ LET new == onePage(heap)
               IN setPages(new.pages, new.heap)
  /\ event' = Ev("reset", -1, -1, "", confirmReset, FALSE, NoFocus, NoFile)

(***************************************************************************)
(* The renderer and the export.  downloadPDF hands the `pages` array to    *)
(* MantraPDF and awaits pdf(...).toBlob(); the component function runs at  *)
(* some point before the blob is there, and handlers run while it is       *)
(* awaited.                                                                *)
(***************************************************************************)
\* page[cellIndex] || ' '
cellText(cell) == IF cell = "" THEN " " ELSE cell

\* colIndex * 20 + rowIndex: the grid filled column by column
slotIndexByColumn(rowIndex, colIndex) == colIndex * rowsPerPage + rowIndex

\* rowIndex * 5 + colIndex
slotIndex(rowIndex, colIndex) == rowIndex * columns + colIndex

\* The print pages in the order emitted, each with its "Page n" annotation
\* and its grid of rows of cells.
MantraPDF(doc) ==
  [k \in 1..Len(doc) |->
     LET pageIndex == k - 1
     IN [number |-> pageIndex + 1,
         grid |-> [rowIndex \in 0..(rowsPerPage - 1) |->
                     [colIndex \in 0..(columns - 1) |->
                        cellText(doc[pageIndex + 1]
                                    [slotIndex(rowIndex, colIndex) + 1])]]]]

\* What the renderer is handed: the captured array of references.
captured(refs) == refs

downloadPDF ==
  /\ mounted
  /\ exportPc = "idle"
  /\ exportPc' = "pending"
  /\ Store(pages, captured(pages), heap)
  /\ exportDoc' = Contents
  /\ event' = Ev("download", -1, -1, "", FALSE, FALSE, NoFocus, NoFile)
  /\ UNCHANGED <<slot, mounted, exportBlob, overlap, prevDoc>>

\* The renderer runs the component on the array it was handed.
Render ==
  /\ exportPc = "pending"
  /\ exportPc' = "rendered"
  /\ exportBlob' = MantraPDF(Deref(exportArg, heap))
  /\ UNCHANGED <<slot, mounted, pages, heap, exportArg, exportDoc, overlap,
                 prevDoc, event>>

\* The await returns: link.click() offers the blob as a file.
Offer ==
  /\ exportPc = "rendered"
  /\ exportPc' = "idle"
  /\ Store(pages, <<>>, heap)
  /\ exportDoc' = <<>>
  /\ exportBlob' = NoFile
  /\ event' = Ev("file", -1, -1, "", FALSE, FALSE, NoFocus, exportBlob)
  /\ UNCHANGED <<slot, mounted, overlap, prevDoc>>

(***************************************************************************)
(* The contents the item may have when a session starts.                   *)
(***************************************************************************)
ShortPage == [k \in 1..(cellsPerPage - 1) |-> ""]
LongPage == [k \in 1..(cellsPerPage + 1) |-> ""]
FilledPage == [k \in 1..cellsPerPage |-> "A"]
BlankPages(n) == [i \in 1..n |-> BlankPage]

SlotContents ==
  { NoItem, EmptyText, BadText,
    JsonText(JNull), JsonText(JNum), JsonText(JObj),
    JsonText(JArr(<<>>)),
    JsonText(JArr(<<JNull>>)),
    JsonText(JArr(<<JArr(<<>>)>>)),
    stringify(<<ShortPage>>),
    stringify(<<LongPage>>),
    stringify(<<BlankPage, ShortPage>>),
    JsonText(JArr(<<stringify(<<BlankPage>>).json.a[1], JNum>>)),
    stringify(<<BlankPage>>),
    stringify(<<BlankPage, FilledPage>>),
    stringify(BlankPages(maxPages)),
    stringify(BlankPages(maxPages + 1)) }

\* The contents the export scenarios start from.
MarkedPage == [k \in 1..cellsPerPage |-> IF k = 8 THEN "A" ELSE ""]

ExportSlots ==
  { stringify(<<BlankPage>>),
    stringify(<<MarkedPage>>),
    stringify(<<BlankPage, FilledPage>>),
    stringify(BlankPages(maxPages)) }

Idle(slots) ==
  /\ slot \in slots
  /\ mounted = FALSE
  /\ pages = <<>>
  /\ heap = <<>>
  /\ exportPc = "idle"
  /\ exportArg = <<>>
  /\ exportDoc = <<>>
  /\ exportBlob = NoFile
  /\ overlap = 0
  /\ prevDoc = <<>>
  /\ event = Ev("init", -1, -1, "", FALSE, FALSE, NoFocus, NoFile)

Init == Idle(SlotContents)

\* The pages the model types into or keys at (the first and the last), the
\* pages it removes (the first, the second and the last), and the keys it
\* presses.
PageIndices == 0..(Len(pages) - 1)
PageSamples == {0, Len(pages) - 1} \cap PageIndices
RemoveSamples == {0, 1, Len(pages) - 1} \cap PageIndices
KeySamples == ({"Enter"} \X EditCells) \cup {<<"a", cellsPerPage - 1>>}

\* Sessions of editing, with the export left alone.
Next ==
  \/ Mount
  \/ Reload
  \/ \E pageIndex \in PageSamples, cellIndex \in EditCells,
        value \in Typable : handleChange(pageIndex, cellIndex, value)
  \/ \E kc \in KeySamples, pageIndex \in PageSamples :
        handleKeyDown(kc[1], pageIndex, kc[2])
  \/ addPage
  \/ \E index \in RemoveSamples, confirmDelete \in BOOLEAN :
        removePage(index, confirmDelete)
  \/ \E confirmReset \in BOOLEAN : resetAll(confirmReset)

Spec == Init /\ [][Next]_vars

\* One session in which the handlers run only while an export is in flight.
ExportInit == Idle(ExportSlots)

ExportNext ==
  \/ Mount
  \/ downloadPDF
  \/ Render
  \/ Offer
  \/ /\ exportPc # "idle"
     /\ \/ \E pageIndex \in PageSamples, cellIndex \in EditCells,
              value \in Typable : handleChange(pageIndex, cellIndex, value)
        \/ addPage
        \/ \E index \in RemoveSamples, confirmDelete \in BOOLEAN :
              removePage(index, confirmDelete)
        \/ \E confirmReset \in BOOLEAN : resetAll(confirmReset)

ExportSpec == ExportInit /\ [][ExportNext]_vars

(***************************************************************************)
(* The claims.                                                             *)
(***************************************************************************)
\* The cell of document doc at the 0-based page p and cell c.
CellAt(doc, p, c) == doc[p + 1][c + 1]

\* C1: in every state of a mounted session the Document holds between 1 and
\* maxPages pages, whatever the item held at startup.
PageCountInRange == mounted => Len(pages) \in 1..maxPages

\* The item holds a non-empty sequence of pages of exactly cellsPerPage cells.
HoldsDocument(item) ==
  /\ item.t = "text"
  /\ item.json.t = "arr"
  /\ item.json.a # <<>>
  /\ \A i \in DOMAIN item.json.a :
        /\ item.json.a[i].t = "arr"
        /\ Cardinality(DOMAIN item.json.a[i].a) = cellsPerPage

\* C2: restore returns the value the item holds when that is a non-empty
\* sequence of pages of exactly 100 cells, and exactly one blank page of 100
\* empty cells for every other item (absent, not parseable, another shape).
RestoreTotal ==
  [][event'.op = "mount" =>
       IF HoldsDocument(slot)
         THEN stringify(Contents') = slot
         ELSE /\ Len(Contents') = 1
              /\ Len(Contents'[1]) = 100
              /\ \A k \in 1..100 : Contents'[1][k] = ""]_vars

RestoredFromBadItem ==
  mounted /\ event.op = "mount" /\ event.v = "bad" /\ Contents = <<BlankPage>>

\* C3: addPage at maxPages pages leaves the Document and the item unchanged
\* and alerts; below maxPages it appends exactly one blank page after the
\* existing pages, which keep their order and content, and does not alert.
AddPageBounded ==
  [][event'.op = "add" =>
       IF Len(Contents) >= 5
         THEN /\ event'.alerted
              /\ Contents' = Contents
              /\ slot' = slot
         ELSE /\ ~event'.alerted
              /\ Len(Contents') = Len(Contents) + 1
              /\ \A i \in 1..Len(Contents) : Contents'[i] = Contents[i]
              /\ Contents'[Len(Contents) + 1] = [k \in 1..100 |-> ""]]_vars

AddPageRejected ==
  mounted /\ event.op = "add" /\ event.alerted /\ Len(pages) = 5

\* C4: a confirmed removePage(pageIndex) on a one-page Document yields
\* exactly one blank page; on a longer one it yields the Document without
\* the page at pageIndex, the other pages in their order with their cells.
RemovePageKeepsOthers ==
  [][(event'.op = "remove" /\ event'.confirmed) =>
       IF Len(Contents) = 1
         THEN Contents' = <<[k \in 1..100 |-> ""]>>
         ELSE /\ Len(Contents') = Len(Contents) - 1
              /\ \A i \in 1..Len(Contents') :
                    Contents'[i] = IF i - 1 < event'.p THEN Contents[i]
                                   ELSE Contents[i + 1]]_vars

SecondPageRemoved ==
  /\ mounted /\ event.op = "remove" /\ event.confirmed /\ event.p = 1
  /\ Len(pages) >= 2
  /\ \E c \in EditCells : CellAt(Contents, 0, c) = "OM"

\* C5: editCell(pageIndex, cellIndex, value) yields the prior Document with
\* cell (pageIndex, cellIndex) holding value: no other cell and not the
\* number of pages changes, and the same edit applied again changes nothing.
EditCellFrame ==
  [][event'.op = "change" =>
       LET before == Contents
           after == Contents'
           page == before[event'.p + 1]
           edited == after[event'.p + 1]
       IN /\ Len(after) = Len(before)
          /\ \A i \in 1..Len(before) :
                i # event'.p + 1 => after[i] = before[i]
          /\ Len(edited) = Len(page)
          /\ \A k \in 1..Len(page) :
                edited[k] = IF k = event'.c + 1 THEN event'.v ELSE page[k]
          /\ event = event' => (after = before /\ slot' = slot)]_vars

EditedBesideOtherText ==
  /\ mounted /\ event.op = "change" /\ event.v = "OM"
  /\ event.p = 1 /\ event.c = 0
  /\ CellAt(Contents, 1, 0) = "OM"
  /\ \A c \in 1..(cellsPerPage - 1) : CellAt(Contents, 1, c) = "A"
  /\ Contents[1] = BlankPage

\* C6: a declined removePage or resetAll changes nothing: the Document in
\* memory and the item are as before the action.
DeclineChangesNothing ==
  [][(event'.op \in {"remove", "reset"} /\ ~event'.confirmed) =>
       /\ Contents' = Contents
       /\ pages' = pages
       /\ slot' = slot]_vars

RemoveDeclined ==
  /\ mounted /\ event.op = "remove" /\ ~event.confirmed
  /\ Len(pages) >= 2 /\ Typed(Contents) > 0

\* C7: in a mounted session the item holds the serialization of the current
\* Document, restoring from it gives that Document, and the session after a
\* reload starts with the Document the session before ended with.
PersistRoundTrip ==
  /\ [](mounted => (slot = stringify(Contents)
                      /\ initializePages(slot) = Contents))
  /\ [][(event.op = "reload" /\ event'.op = "mount") =>
          Contents' = prevDoc]_vars

FirstCellRestored ==
  /\ mounted /\ event.op = "mount"
  /\ Contents = <<[k \in 1..cellsPerPage |-> IF k = 1 THEN "OM" ELSE ""]>>

\* What the print pages `out` must be for the Document `doc`.
PrintedAs(out, doc) ==
  /\ DOMAIN out = 1..Len(doc)
  /\ \A k \in 1..Len(doc) :
        /\ out[k].number = k
        /\ DOMAIN out[k].grid = 0..19
        /\ \A r \in 0..19 :
              /\ DOMAIN out[k].grid[r] = 0..4
              /\ \A c \in 0..4 :
                    out[k].grid[r][c] =
                      IF CellAt(doc, k - 1, r * 5 + c) = "" THEN " "
                      ELSE CellAt(doc, k - 1, r * 5 + c)

\* C8: the renderer emits one print page per Page, in order, the k-th with
\* page number k, each with a grid of 20 rows of 5 slots; the slot at row r,
\* column c shows stored cell r*5+c, or a single space when that is empty.
RenderGrid ==
  [][(exportPc = "pending" /\ exportPc' = "rendered") =>
       PrintedAs(exportBlob', Deref(exportArg, heap))]_vars

FilledPageRendered ==
  /\ exportPc = "rendered"
  /\ Len(exportBlob) = 2
  /\ exportBlob[1].grid[0][0] = " "
  /\ \A r \in 0..19, c \in 0..4 : exportBlob[2].grid[r][c] = "A"

\* The focus call an Enter at (p, c) must make in a Document of n pages.
NextCell(p, c, n) ==
  IF c < 99 THEN <<p, c + 1>>
  ELSE IF p + 1 < n THEN <<p + 1, 0>>
  ELSE NoFocus

\* C9: Enter at (pageIndex, cellIndex) focuses (pageIndex, cellIndex + 1)
\* when cellIndex < 99, (pageIndex + 1, 0) when cellIndex = 99 and that page
\* exists, and nothing at the last cell of the last page; the Document and
\* the item are unchanged, and no page is created.
EnterMovesFocus ==
  [][(event'.op = "key" /\ event'.v = "Enter") =>
       /\ event'.focus = NextCell(event'.p, event'.c, Len(pages))
       /\ Contents' = Contents
       /\ pages' = pages
       /\ slot' = slot]_vars

EnterAtLastCell ==
  /\ mounted /\ event.op = "key" /\ event.v = "Enter"
  /\ event.c = 99 /\ event.p = Len(pages) - 1
  /\ event.focus = NoFocus

\* C10: while the render of an export is awaited, the pages the renderer was
\* handed hold what they held when downloadPDF was called.
CapturedIsolated ==
  exportPc = "pending" => Deref(exportArg, heap) = exportDoc

====
